---- MODULE Spec2Model ----
(***************************************************************************)
(* pharma_trace: an Anchor program with two instructions.                  *)
(*   sign_consent   creates the ConsentRecord PDA of the signing patient.  *)
(*   reward_patient marks a ConsentRecord verified and transfers tokens    *)
(*                  out of a vault through the "vault_authority" PDA.      *)
(* Every instruction runs as one transaction: its account struct is        *)
(* validated, the handler runs, and the accounts are written back only     *)
(* when the handler returns Ok.                                            *)
(***************************************************************************)
EXTENDS Integers, FiniteSets, Sequences, TLC

\* ------------------------------------------------------------------ bounds
MaxVault == 2      \* largest starting balance of the vault token account
MaxAmount == 2     \* largest amount passed to reward_patient
MaxSelfPaid == 2   \* cap on the amounts of committed rewards that name one
                   \* token account as source and destination

\* ------------------------------------------------------------ input sets
\* A public key is a tuple: <<name>> for a wallet (an address with a private
\* key), <<seeds, bump>> for a program derived address.
RESEARCHER_PUBKEY == <<"ESQzmo4dRJ6g3ECjUUDVTarwaFfpqqMuzwCGiDBub6xt">>
ALICE == <<"alice">>
BOB == <<"bob">>

Patients == {ALICE, BOB}
Researchers == {RESEARCHER_PUBKEY, ALICE}
Hashes == {"0xAA", "0xBB"}
Amounts == 0..MaxAmount

\* an address at which no account has been created
NoAccount == [lamports |-> 0]

\* ------------------------------------------------- program derived addresses
\* The canonical bump of a seed list (the first bump, counting down from 255,
\* that yields an off-curve address); a fixed function of the seeds.
CanonicalBump(seeds) ==
    IF seeds = <<"vault_authority">> THEN 254
    ELSE IF seeds = <<"consent", ALICE>> THEN 255
    ELSE 253

\* create_program_address: the address is a function of seeds and bump.
CreateProgramAddress(seeds, bump) == <<seeds, bump>>

\* mutant: only the tag is hashed, the key that follows it is left out
FindProgramAddress_TagOnly(seeds) ==
    [key |-> CreateProgramAddress(<<seeds[1]>>, CanonicalBump(<<seeds[1]>>)),
     bump |-> CanonicalBump(<<seeds[1]>>)]

FindProgramAddress(seeds) ==
    [key |-> CreateProgramAddress(seeds, CanonicalBump(seeds)),
     bump |-> CanonicalBump(seeds)]

ConsentKeys == {FindProgramAddress(<<"consent", p>>).key : p \in Patients}

VaultAuthority == FindProgramAddress(<<"vault_authority">>).key

\* ------------------------------------------------------------ token accounts
VAULT == "vault"
TokenAccts == {VAULT, "ataAlice", "ataBob", "ataOther"}

\* owner (authority) of each token account; fixed for the accounts modelled
TokenOwner ==
    [t \in TokenAccts |->
        IF t = VAULT THEN VaultAuthority
        ELSE IF t = "ataAlice" THEN ALICE ELSE BOB]

\* mint of each token account: the vault and the patients' accounts hold the
\* reward token, "ataOther" is an account of another mint
TokenMint ==
    [t \in TokenAccts |-> IF t = "ataOther" THEN "otherMint" ELSE "rewardMint"]

\* ------------------------------------------------------------------- state
VARIABLES
    records,      \* ConsentRecord accounts, by address (NoAccount when absent)
    balance,      \* amount of every token account
    dupMutCheck,  \* whether the account-struct validation of this build
                  \* rejects one account passed for two mutable fields
    last,         \* the instruction just processed, its accounts and result,
                  \* until the client has read the result
    pre,          \* records and balance before that instruction
    vault0,       \* starting balance of the vault
    paid,         \* sum of the amounts of committed rewards whose source
                  \* and destination token accounts differ
    selfPaid      \* sum of the amounts of committed rewards whose source
                  \* and destination are the same token account

vars == <<records, balance, dupMutCheck, last, pre, vault0, paid, selfPaid>>

ConsentRecord ==
    [patient : Patients, agreement_hash : Hashes,
     is_verified : BOOLEAN, bump : 0..255]

PharmaError == {"UnauthorizedResearcher"}

Ok == "Ok"

\* ------------------------------------------------------------- sign_consent
\* mutant: consent_record declared `init_if_needed`, an existing record is
\* handed to the handler again
SignConsent_InitIfNeeded(st, patient, consent_record) ==
    LET pda == FindProgramAddress(<<"consent", patient>>) IN
    IF consent_record # pda.key
    THEN [err |-> "ConstraintSeeds", st |-> st, bump |-> 0]
    ELSE [err |-> Ok, st |-> st, bump |-> pda.bump]

\* mutant: consent_record declared `init` without seeds, any address is taken
SignConsent_NoSeeds(st, patient, consent_record) ==
    LET pda == FindProgramAddress(<<"consent", patient>>) IN
    IF st.records[consent_record] # NoAccount
    THEN [err |-> "AccountAlreadyInUse", st |-> st, bump |-> 0]
    ELSE [err |-> Ok, st |-> st, bump |-> pda.bump]

\* #[derive(Accounts)] SignConsent: consent_record is `init` at the PDA of
\* ["consent", patient]; creating an account that exists fails.
SignConsent(st, patient, consent_record) ==
    LET pda == FindProgramAddress(<<"consent", patient>>) IN
    IF consent_record # pda.key
    THEN [err |-> "ConstraintSeeds", st |-> st, bump |-> 0]
    ELSE IF st.records[consent_record] # NoAccount
    THEN [err |-> "AccountAlreadyInUse", st |-> st, bump |-> 0]
    ELSE [err |-> Ok, st |-> st, bump |-> pda.bump]

\* mutant: the new record is stored as verified
sign_consent_Verified(st, patient, consent_record, bump, agreement_hash) ==
    [err |-> Ok,
     st |-> [st EXCEPT !.records[consent_record] =
                [patient |-> patient,
                 agreement_hash |-> agreement_hash,
                 is_verified |-> TRUE,
                 bump |-> bump]]]

\* the handler: fills in the freshly allocated record
sign_consent(st, patient, consent_record, bump, agreement_hash) ==
    [err |-> Ok,
     st |-> [st EXCEPT !.records[consent_record] =
                [patient |-> patient,
                 agreement_hash |-> agreement_hash,
                 is_verified |-> FALSE,
                 bump |-> bump]]]

ExecSignConsent(st, patient, consent_record, agreement_hash) ==
    LET acc == SignConsent(st, patient, consent_record) IN
    IF acc.err # Ok THEN [err |-> acc.err, st |-> st]
    ELSE LET res == sign_consent(acc.st, patient, consent_record,
                                 acc.bump, agreement_hash)
         IN IF res.err = Ok THEN res ELSE [err |-> res.err, st |-> st]

\* ----------------------------------------------------------- reward_patient
\* token::transfer as the token program processes it, for accounts that are
\* not frozen and have no delegate.
Transfer(bal, from, to, authority, amount) ==
    IF bal[from] < amount
    THEN [err |-> "InsufficientFunds", balance |-> bal]
    ELSE IF TokenMint[from] # TokenMint[to]
    THEN [err |-> "MintMismatch", balance |-> bal]
    ELSE IF TokenOwner[from] # authority
    THEN [err |-> "OwnerMismatch", balance |-> bal]
    ELSE IF from = to \/ amount = 0
    THEN [err |-> Ok, balance |-> bal]
    ELSE [err |-> Ok,
          balance |-> [bal EXCEPT ![from] = @ - amount, ![to] = @ + amount]]

TransferErrors == {"InsufficientFunds", "MintMismatch", "OwnerMismatch"}

\* mutant: consent_record declared `init_if_needed`, an absent record is
\* allocated (zeroed) at the derived address
RewardPatient_InitIfNeeded(st, dup, consent_record, patient_wallet, vault_token_account, patient_token_account) ==
    LET pda == FindProgramAddress(<<"consent", patient_wallet>>) IN
    IF consent_record # pda.key
    THEN [err |-> "ConstraintSeeds", st |-> st]
    ELSE IF dup /\ vault_token_account = patient_token_account
    THEN [err |-> "ConstraintDuplicateMutableAccount", st |-> st]
    ELSE IF st.records[consent_record] = NoAccount
    THEN [err |-> Ok,
          st |-> [st EXCEPT !.records[consent_record] =
                     [patient |-> <<"11111111111111111111111111111111">>,
                      agreement_hash |-> "0x00",
                      is_verified |-> FALSE, bump |-> 0]]]
    ELSE [err |-> Ok, st |-> st]

\* mutant: consent_record carries `mut` only, no seeds
RewardPatient_NoSeeds(st, dup, consent_record, patient_wallet, vault_token_account, patient_token_account) ==
    IF st.records[consent_record] = NoAccount
    THEN [err |-> "AccountNotInitialized", st |-> st]
    ELSE IF dup /\ vault_token_account = patient_token_account
    THEN [err |-> "ConstraintDuplicateMutableAccount", st |-> st]
    ELSE [err |-> Ok, st |-> st]

\* #[derive(Accounts)] RewardPatient: consent_record must be an initialized
\* ConsentRecord at the address made from ["consent", patient_wallet] and the
\* bump stored in it; the token accounts carry no constraint but `mut`.
RewardPatient(st, dup, consent_record, patient_wallet, vault_token_account, patient_token_account) ==
    IF st.records[consent_record] = NoAccount
    THEN [err |-> "AccountNotInitialized", st |-> st]
    ELSE IF CreateProgramAddress(<<"consent", patient_wallet>>,
                                 st.records[consent_record].bump)
            # consent_record
    THEN [err |-> "ConstraintSeeds", st |-> st]
    ELSE IF dup /\ vault_token_account = patient_token_account
    THEN [err |-> "ConstraintDuplicateMutableAccount", st |-> st]
    ELSE [err |-> Ok, st |-> st]

\* mutant: the require_keys_eq! on the researcher is missing
reward_patient_NoAuth(st, researcher, consent_record, vault_token_account, patient_token_account, amount) ==
    LET st1 == [st EXCEPT !.records[consent_record].is_verified = TRUE]
        t == Transfer(st1.balance, vault_token_account,
                      patient_token_account, VaultAuthority, amount)
    IN IF t.err # Ok
       THEN [err |-> t.err, st |-> st1]
       ELSE [err |-> Ok, st |-> [st1 EXCEPT !.balance = t.balance]]

\* mutant: the result of token::transfer is dropped instead of propagated
reward_patient_IgnoresTransfer(st, researcher, consent_record, vault_token_account, patient_token_account, amount) ==
    IF researcher # RESEARCHER_PUBKEY
    THEN [err |-> "UnauthorizedResearcher", st |-> st]
    ELSE LET st1 == [st EXCEPT !.records[consent_record].is_verified = TRUE]
             t == Transfer(st1.balance, vault_token_account,
                           patient_token_account, VaultAuthority, amount)
         IN [err |-> Ok, st |-> [st1 EXCEPT !.balance = t.balance]]

\* mutant: a record that is already verified is not paid again
reward_patient_PaysOnce(st, researcher, consent_record, vault_token_account, patient_token_account, amount) ==
    IF researcher # RESEARCHER_PUBKEY
    THEN [err |-> "UnauthorizedResearcher", st |-> st]
    ELSE IF st.records[consent_record].is_verified
    THEN [err |-> Ok, st |-> st]
    ELSE LET st1 == [st EXCEPT !.records[consent_record].is_verified = TRUE]
             t == Transfer(st1.balance, vault_token_account,
                           patient_token_account, VaultAuthority, amount)
         IN IF t.err # Ok
            THEN [err |-> t.err, st |-> st1]
            ELSE [err |-> Ok, st |-> [st1 EXCEPT !.balance = t.balance]]

\* mutant: the flag is flipped instead of set
reward_patient_Toggles(st, researcher, consent_record, vault_token_account, patient_token_account, amount) ==
    IF researcher # RESEARCHER_PUBKEY
    THEN [err |-> "UnauthorizedResearcher", st |-> st]
    ELSE LET st1 == [st EXCEPT !.records[consent_record].is_verified = ~@]
             t == Transfer(st1.balance, vault_token_account,
                           patient_token_account, VaultAuthority, amount)
         IN IF t.err # Ok
            THEN [err |-> t.err, st |-> st1]
            ELSE [err |-> Ok, st |-> [st1 EXCEPT !.balance = t.balance]]

\* mutant: the bump of vault_authority is stored in the record
reward_patient_StoresBump(st, researcher, consent_record, vault_token_account, patient_token_account, amount) ==
    IF researcher # RESEARCHER_PUBKEY
    THEN [err |-> "UnauthorizedResearcher", st |-> st]
    ELSE LET st1 == [st EXCEPT
                       !.records[consent_record].is_verified = TRUE,
                       !.records[consent_record].bump =
                           CanonicalBump(<<"vault_authority">>)]
             t == Transfer(st1.balance, vault_token_account,
                           patient_token_account, VaultAuthority, amount)
         IN IF t.err # Ok
            THEN [err |-> t.err, st |-> st1]
            ELSE [err |-> Ok, st |-> [st1 EXCEPT !.balance = t.balance]]

\* mutant: the tokens go to the token account of the record's patient, not
\* to patient_token_account
reward_patient_PaysRecordPatient(st, researcher, consent_record, vault_token_account, patient_token_account, amount) ==
    IF researcher # RESEARCHER_PUBKEY
    THEN [err |-> "UnauthorizedResearcher", st |-> st]
    ELSE LET st1 == [st EXCEPT !.records[consent_record].is_verified = TRUE]
             to == CHOOSE a \in TokenAccts :
                      /\ TokenOwner[a] = st.records[consent_record].patient
                      /\ TokenMint[a] = TokenMint[VAULT]
             t == Transfer(st1.balance, vault_token_account, to,
                           VaultAuthority, amount)
         IN IF t.err # Ok
            THEN [err |-> t.err, st |-> st1]
            ELSE [err |-> Ok, st |-> [st1 EXCEPT !.balance = t.balance]]

\* mutant: an amount of zero is refused
reward_patient_RequiresPositive(st, researcher, consent_record, vault_token_account, patient_token_account, amount) ==
    IF researcher # RESEARCHER_PUBKEY
    THEN [err |-> "UnauthorizedResearcher", st |-> st]
    ELSE IF amount = 0
    THEN [err |-> "InvalidAmount", st |-> st]
    ELSE LET st1 == [st EXCEPT !.records[consent_record].is_verified = TRUE]
             t == Transfer(st1.balance, vault_token_account,
                           patient_token_account, VaultAuthority, amount)
         IN IF t.err # Ok
            THEN [err |-> t.err, st |-> st1]
            ELSE [err |-> Ok, st |-> [st1 EXCEPT !.balance = t.balance]]

\* the handler
reward_patient(st, researcher, consent_record, vault_token_account, patient_token_account, amount) ==
    IF researcher # RESEARCHER_PUBKEY
    THEN [err |-> "UnauthorizedResearcher", st |-> st]
    ELSE LET st1 == [st EXCEPT !.records[consent_record].is_verified = TRUE]
             t == Transfer(st1.balance, vault_token_account,
                           patient_token_account, VaultAuthority, amount)
         IN IF t.err # Ok
            THEN [err |-> t.err, st |-> st1]
            ELSE [err |-> Ok, st |-> [st1 EXCEPT !.balance = t.balance]]

ExecRewardPatient(st, dup, researcher, consent_record, patient_wallet, vault_token_account, patient_token_account, amount) ==
    LET acc == RewardPatient(st, dup, consent_record, patient_wallet,
                             vault_token_account, patient_token_account) IN
    IF acc.err # Ok THEN [err |-> acc.err, st |-> st]
    ELSE LET res == reward_patient(acc.st, researcher, consent_record,
                                   vault_token_account,
                                   patient_token_account, amount)
         IN IF res.err = Ok THEN res ELSE [err |-> res.err, st |-> st]

\* ----------------------------------------------------------------- actions
State == [records |-> records, balance |-> balance]

NoTx == [op |-> "none", err |-> Ok]

SignConsentTx(patient, consent_record, agreement_hash) ==
    LET res == ExecSignConsent(State, patient, consent_record, agreement_hash)
    IN /\ last = NoTx
       /\ records' = res.st.records
       /\ balance' = res.st.balance
       /\ pre' = State
       /\ last' = [op |-> "sign_consent", patient |-> patient,
                   consent_record |-> consent_record,
                   agreement_hash |-> agreement_hash, err |-> res.err]
       /\ UNCHANGED <<dupMutCheck, vault0, paid, selfPaid>>

RewardPatientTx(researcher, consent_record, patient_wallet, vault_token_account, patient_token_account, amount) ==
    LET res == ExecRewardPatient(State, dupMutCheck, researcher,
                                 consent_record, patient_wallet,
                                 vault_token_account, patient_token_account,
                                 amount)
    IN /\ last = NoTx
       /\ records' = res.st.records
       /\ balance' = res.st.balance
       /\ pre' = State
       /\ last' = [op |-> "reward_patient", researcher |-> researcher,
                   consent_record |-> consent_record,
                   patient_wallet |-> patient_wallet,
                   vault_token_account |-> vault_token_account,
                   patient_token_account |-> patient_token_account,
                   amount |-> amount, err |-> res.err]
       /\ paid' = IF res.err = Ok
                     /\ vault_token_account # patient_token_account
                  THEN paid + amount ELSE paid
       /\ (vault_token_account = patient_token_account) =>
              selfPaid + amount <= MaxSelfPaid
       /\ selfPaid' = IF res.err = Ok
                         /\ vault_token_account = patient_token_account
                      THEN selfPaid + amount ELSE selfPaid
       /\ UNCHANGED <<dupMutCheck, vault0>>

\* The instruction has returned and its result has been read: nothing of
\* the call is kept but the accounts.
Retire ==
    /\ last # NoTx
    /\ last' = NoTx
    /\ pre' = State
    /\ UNCHANGED <<records, balance, dupMutCheck, vault0, paid, selfPaid>>

Init ==
    /\ records = [k \in ConsentKeys |-> NoAccount]
    /\ vault0 \in 0..MaxVault
    /\ balance = [t \in TokenAccts |-> IF t = VAULT THEN vault0 ELSE 0]
    /\ dupMutCheck \in BOOLEAN
    /\ last = NoTx
    /\ pre = [records |-> records, balance |-> balance]
    /\ paid = 0
    /\ selfPaid = 0

Next ==
    \/ \E patient \in Patients, consent_record \in ConsentKeys,
          agreement_hash \in Hashes :
          SignConsentTx(patient, consent_record, agreement_hash)
    \/ \E researcher \in Researchers, consent_record \in ConsentKeys,
          patient_wallet \in Patients,
          vault_token_account \in TokenAccts,
          patient_token_account \in TokenAccts, amount \in Amounts :
          RewardPatientTx(researcher, consent_record, patient_wallet,
                          vault_token_account, patient_token_account, amount)
    \/ Retire

Spec == Init /\ [][Next]_vars

\* ------------------------------------------------------------- properties
IsSign == last.op = "sign_consent"
IsReward == last.op = "reward_patient"
ByResearcher == last.researcher = RESEARCHER_PUBKEY

ConsentKey(patient) == FindProgramAddress(<<"consent", patient>>).key

\* the record named by the last instruction, before and after it
RecBefore == pre.records[last.consent_record]
RecAfter == records[last.consent_record]

NothingChanged == records = pre.records /\ balance = pre.balance

\* the last reward_patient named an existing record together with the wallet
\* of its patient, and its token accounts pass the account-struct validation
NamesExistingRecord ==
    /\ RecBefore # NoAccount
    /\ RecBefore.patient = last.patient_wallet
    /\ (dupMutCheck => last.vault_token_account # last.patient_token_account)

\* C1: reward_patient called by anyone but RESEARCHER_PUBKEY fails and leaves
\* every record (is_verified included) and every token balance as it was, for
\* every amount; on an existing record the error is UnauthorizedResearcher.
C1_UnauthorizedRewardChangesNothing ==
    (IsReward /\ ~ByResearcher) =>
        /\ last.err # Ok
        /\ NothingChanged
        /\ (NamesExistingRecord => last.err = "UnauthorizedResearcher")

C1_Witness ==
    /\ IsReward /\ ~ByResearcher /\ NamesExistingRecord
    /\ last.err = "UnauthorizedResearcher"
    /\ last.vault_token_account = VAULT
    /\ last.patient_token_account = "ataAlice"
    /\ last.amount > 0 /\ pre.balance[VAULT] >= last.amount
    /\ ~RecBefore.is_verified /\ ~RecAfter.is_verified

\* C2: sign_consent by S with hash H on an absent record succeeds and creates
\* {patient = S, agreement_hash = H, is_verified = FALSE}; when S's record
\* exists it fails with the address collision, whatever the hash, and leaves
\* the records as they were.
C2_SignConsentOnce ==
    (IsSign /\ last.consent_record = ConsentKey(last.patient)) =>
        IF RecBefore = NoAccount
        THEN /\ last.err = Ok
             /\ RecAfter.patient = last.patient
             /\ RecAfter.agreement_hash = last.agreement_hash
             /\ RecAfter.is_verified = FALSE
        ELSE /\ last.err = "AccountAlreadyInUse"
             /\ NothingChanged

C2_Witness ==
    /\ IsSign /\ last.consent_record = ConsentKey(last.patient)
    /\ last.err = "AccountAlreadyInUse"
    /\ RecBefore.agreement_hash # last.agreement_hash
    /\ RecBefore.is_verified
    /\ RecAfter = RecBefore

\* C3 (as claimed): a successful reward_patient by the researcher leaves the
\* record verified, the vault token account exactly amount lower and the
\* patient token account exactly amount higher, whichever token accounts
\* were supplied.
C3_RewardMovesExactlyAmount ==
    (IsReward /\ ByResearcher /\ last.err = Ok) =>
        /\ RecAfter.is_verified
        /\ balance[last.vault_token_account]
               = pre.balance[last.vault_token_account] - last.amount
        /\ balance[last.patient_token_account]
               = pre.balance[last.patient_token_account] + last.amount

\* C4 (as claimed): whenever a reward_patient takes tokens out of the vault,
\* the caller is the researcher and the credited token account belongs to
\* the patient of the record that is marked verified.
C4_RewardReleasedToSubject ==
    (IsReward /\ last.err = Ok
        /\ balance[last.vault_token_account]
              < pre.balance[last.vault_token_account]) =>
        /\ ByResearcher
        /\ TokenOwner[last.patient_token_account] = RecAfter.patient

\* C5: when the transfer inside reward_patient fails, the instruction fails
\* with the transfer's error, no balance moves and is_verified keeps its
\* value; a source balance below amount makes the transfer fail.
C5_TransferFailureAborts ==
    /\ (IsReward /\ last.err \in TransferErrors) => NothingChanged
    /\ (IsReward /\ ByResearcher /\ NamesExistingRecord
           /\ pre.balance[last.vault_token_account] < last.amount) =>
          last.err = "InsufficientFunds"
    /\ (IsReward /\ ByResearcher /\ NamesExistingRecord
           /\ pre.balance[last.vault_token_account] >= last.amount
           /\ (\/ TokenMint[last.vault_token_account]
                    # TokenMint[last.patient_token_account]
               \/ TokenOwner[last.vault_token_account] # VaultAuthority)) =>
          last.err \in TransferErrors

C5_Witness ==
    /\ IsReward /\ ByResearcher /\ NamesExistingRecord
    /\ last.vault_token_account = VAULT
    /\ last.patient_token_account = "ataAlice"
    /\ pre.balance[VAULT] < last.amount
    /\ last.err = "InsufficientFunds"
    /\ ~RecBefore.is_verified /\ ~RecAfter.is_verified
    /\ balance = pre.balance

C7_RewardNeedsRecord ==
    /\ (IsReward /\ RecBefore = NoAccount) =>
          (last.err # Ok /\ NothingChanged)
    /\ \A k \in ConsentKeys :
          (pre.records[k] = NoAccount /\ records[k] # NoAccount) =>
              (IsSign /\ ~records[k].is_verified)

C7_Witness ==
    /\ IsReward /\ ByResearcher /\ RecBefore = NoAccount
    /\ last.consent_record = ConsentKey(last.patient_wallet)
    /\ last.vault_token_account = VAULT
    /\ last.patient_token_account = "ataAlice"
    /\ last.amount > 0 /\ pre.balance[VAULT] >= last.amount
    /\ last.err = "AccountNotInitialized"
    /\ RecAfter = NoAccount

\* C8: no instruction destroys a record, and none takes is_verified from
\* TRUE back to FALSE.
C8_LifecycleMonotone ==
    \A k \in ConsentKeys :
        pre.records[k] # NoAccount =>
            /\ records[k] # NoAccount
            /\ (pre.records[k].is_verified => records[k].is_verified)

C8_Witness ==
    /\ IsSign /\ last.consent_record = ConsentKey(last.patient)
    /\ RecBefore # NoAccount /\ RecBefore.is_verified
    /\ last.err # Ok
    /\ RecAfter # NoAccount /\ RecAfter.is_verified

\* C9: the record stored at an address is the record of the patient the
\* address is derived from (so a patient has at most one record), and a
\* record of patient S appears only through a sign_consent signed by S.
C9_OneRecordPerPatient ==
    /\ \A k \in ConsentKeys :
          records[k] # NoAccount =>
              /\ k = ConsentKey(records[k].patient)
              /\ k = CreateProgramAddress(<<"consent", records[k].patient>>,
                                          records[k].bump)
    /\ \A k1, k2 \in ConsentKeys :
          (records[k1] # NoAccount /\ records[k2] # NoAccount
             /\ records[k1].patient = records[k2].patient) => k1 = k2
    /\ \A k \in ConsentKeys :
          (pre.records[k] = NoAccount /\ records[k] # NoAccount) =>
              (IsSign /\ last.patient = records[k].patient)

C9_Witness ==
    /\ IsSign /\ last.err = Ok
    /\ RecBefore = NoAccount
    /\ RecAfter.patient = last.patient
    /\ \A k \in ConsentKeys : records[k] # NoAccount

\* ---------------------------------------------------- order of instructions
\* an instruction, given as the record of its accounts and arguments
ExecOp(st, dup, o) ==
    IF o.op = "sign_consent"
    THEN ExecSignConsent(st, o.patient, o.consent_record, o.agreement_hash)
    ELSE ExecRewardPatient(st, dup, o.researcher, o.consent_record,
                           o.patient_wallet, o.vault_token_account,
                           o.patient_token_account, o.amount)

\* the instructions that touch the record of patient p and of nobody else
OpsOn(p) ==
    [op : {"sign_consent"}, patient : {p}, consent_record : {ConsentKey(p)},
     agreement_hash : Hashes]
    \cup
    [op : {"reward_patient"}, researcher : Researchers,
     consent_record : {ConsentKey(p)}, patient_wallet : {p},
     vault_token_account : TokenAccts, patient_token_account : TokenAccts,
     amount : Amounts]

\* the patient whose record the last instruction touched, when it is one
LastSubjects ==
    IF IsSign
    THEN {p \in Patients : p = last.patient
                             /\ last.consent_record = ConsentKey(p)}
    ELSE IF IsReward
    THEN {p \in Patients : p = last.patient_wallet
                             /\ last.consent_record = ConsentKey(p)}
    ELSE {}

\* the last instruction a and an instruction b commute from the state before
\* a: each has the same result and the final state is the same in both orders
Commutes(b) ==
    LET bFirst == ExecOp(pre, dupMutCheck, b)
        aSecond == ExecOp(bFirst.st, dupMutCheck, last)
        bSecond == ExecOp(State, dupMutCheck, b)
    IN /\ aSecond.err = last.err
       /\ bFirst.err = bSecond.err
       /\ aSecond.st = bSecond.st

\* both are reward_patient and a source token account holds less than the
\* two amounts together
Overdraws(b) ==
    /\ IsReward /\ b.op = "reward_patient"
    /\ \/ pre.balance[last.vault_token_account] < last.amount + b.amount
       \/ pre.balance[b.vault_token_account] < last.amount + b.amount

\* C10 (as claimed): two instructions on the records of distinct patients
\* have the same results and the same final state in either order.
C10_OrderIndependent ==
    \A p \in LastSubjects : \A q \in Patients \ {p} : \A b \in OpsOn(q) :
        Commutes(b)

\* C10 (amended): the same, unless both instructions are reward_patient and
\* a source token account holds less than the two amounts together.
C10_OrderIndependentFunded ==
    \A p \in LastSubjects : \A q \in Patients \ {p} : \A b \in OpsOn(q) :
        ~Overdraws(b) => Commutes(b)

C10_Witness ==
    /\ IsReward /\ ByResearcher /\ last.err = Ok
    /\ last.patient_wallet = ALICE
    /\ last.vault_token_account = VAULT
    /\ last.patient_token_account = "ataAlice"
    /\ last.amount > 0
    /\ \E b \in OpsOn(BOB) :
          /\ b.op = "reward_patient" /\ b.researcher = RESEARCHER_PUBKEY
          /\ b.vault_token_account = VAULT
          /\ b.patient_token_account = "ataBob"
          /\ b.amount > 0
          /\ ~Overdraws(b)
          /\ ExecOp(State, dupMutCheck, b).err = Ok
          /\ ExecOp(pre, dupMutCheck, b).err = Ok

\* ------------------------------------------------- later properties
\* the record at k is verified / was verified before the last instruction
VerifiedNow(k) == records[k] # NoAccount /\ records[k].is_verified
VerifiedBefore(k) == pre.records[k] # NoAccount /\ pre.records[k].is_verified

\* C11: a record becomes verified only in a reward_patient on that record,
\* called by RESEARCHER_PUBKEY, that returned Ok; no other instruction and
\* no other caller takes a record from signed to verified.
C11_VerifiedOnlyByResearcher ==
    \A k \in ConsentKeys :
        (VerifiedNow(k) /\ ~VerifiedBefore(k)) =>
            /\ IsReward /\ ByResearcher /\ last.err = Ok
            /\ last.consent_record = k
            /\ pre.records[k] # NoAccount

C11_Witness ==
    /\ IsReward /\ ByResearcher /\ last.err = Ok
    /\ RecBefore # NoAccount /\ ~RecBefore.is_verified
    /\ RecAfter.is_verified

\* C13: reward_patient naming a record whose address is not the one made
\* from ["consent", patient_wallet] and the stored bump fails with the seeds
\* error before any effect, whoever calls: nothing is verified, nothing
\* moves.
C13_DerivationMismatchRejected ==
    (IsReward /\ RecBefore # NoAccount
        /\ last.consent_record
              # CreateProgramAddress(<<"consent", last.patient_wallet>>,
                                     RecBefore.bump)) =>
        /\ last.err = "ConstraintSeeds"
        /\ NothingChanged

C13_Witness ==
    /\ IsReward /\ ByResearcher
    /\ RecBefore # NoAccount /\ ~RecBefore.is_verified
    /\ RecBefore.patient = ALICE /\ last.patient_wallet = BOB
    /\ pre.records[ConsentKey(BOB)] # NoAccount
    /\ last.vault_token_account = VAULT
    /\ last.patient_token_account = "ataBob"
    /\ last.amount > 0 /\ pre.balance[VAULT] >= last.amount
    /\ last.err = "ConstraintSeeds"
    /\ ~RecAfter.is_verified

\* C14: once a record exists its patient, agreement_hash and bump never
\* change; the one field a reward_patient writes is is_verified.
C14_RecordFieldsFrozen ==
    \A k \in ConsentKeys :
        pre.records[k] # NoAccount =>
            /\ records[k] # NoAccount
            /\ records[k].patient = pre.records[k].patient
            /\ records[k].agreement_hash = pre.records[k].agreement_hash
            /\ records[k].bump = pre.records[k].bump

C14_Witness ==
    /\ IsReward /\ last.err = Ok
    /\ ~RecBefore.is_verified /\ RecAfter.is_verified
    /\ RecAfter = [RecBefore EXCEPT !.is_verified = TRUE]

\* C15: a successful sign_consent changes no token balance and no record but
\* the one it creates; a successful reward_patient changes no record but the
\* one it names and no token account but the two it was given.
C15_FrameOfEachInstruction ==
    /\ (IsSign /\ last.err = Ok) =>
          /\ balance = pre.balance
          /\ \A k \in ConsentKeys \ {last.consent_record} :
                records[k] = pre.records[k]
    /\ (IsReward /\ last.err = Ok) =>
          /\ \A k \in ConsentKeys \ {last.consent_record} :
                records[k] = pre.records[k]
          /\ \A t \in TokenAccts \ {last.vault_token_account,
                                      last.patient_token_account} :
                balance[t] = pre.balance[t]

C15_Witness ==
    /\ IsReward /\ last.err = Ok
    /\ last.amount > 0
    /\ last.patient_token_account = "ataBob"
    /\ RecAfter.patient = ALICE
    /\ balance["ataBob"] = pre.balance["ataBob"] + last.amount
    /\ balance["ataAlice"] = pre.balance["ataAlice"]
    /\ records[ConsentKey(BOB)] # NoAccount
    /\ records[ConsentKey(BOB)] = pre.records[ConsentKey(BOB)]

\* C16: reward_patient by the researcher with amount 0 on a signed,
\* unverified record, paying from the vault into a token account of the
\* reward mint, succeeds: the record becomes verified and every balance
\* stays as it was.
C16_ZeroAmountVerifies ==
    (IsReward /\ ByResearcher /\ NamesExistingRecord
        /\ ~RecBefore.is_verified
        /\ last.amount = 0
        /\ last.vault_token_account = VAULT
        /\ TokenMint[last.patient_token_account] = TokenMint[VAULT]) =>
        /\ last.err = Ok
        /\ RecAfter.is_verified
        /\ balance = pre.balance

C16_Witness ==
    /\ IsReward /\ ByResearcher /\ last.err = Ok
    /\ last.amount = 0
    /\ last.vault_token_account = VAULT
    /\ last.patient_token_account = "ataAlice"
    /\ ~RecBefore.is_verified /\ RecAfter.is_verified
    /\ balance = pre.balance
    /\ pre.balance[VAULT] = vault0

\* the sum of the amounts of all committed rewards
Rewarded == paid + selfPaid

RECURSIVE SumOf(_, _)
SumOf(bal, accts) ==
    IF accts = {} THEN 0
    ELSE LET t == CHOOSE x \in accts : TRUE
         IN bal[t] + SumOf(bal, accts \ {t})

\* C12 (as claimed): the vault balance is never negative, changes only in a
\* reward_patient by the researcher that returned Ok, always equals its
\* starting balance less the sum of the amounts of all committed rewards,
\* and the total of the token balances is constant.
C12_VaultLedger ==
    /\ balance[VAULT] >= 0
    /\ (balance[VAULT] # pre.balance[VAULT]) =>
          (IsReward /\ ByResearcher /\ last.err = Ok)
    /\ balance[VAULT] = vault0 - Rewarded
    /\ SumOf(balance, TokenAccts) = vault0

====
